---- MODULE Spec2Model ----
(***************************************************************************)
(* The Open-Unmix conversion scripts of scripts/, as one state machine.    *)
(*                                                                         *)
(*   "2stems"    convert_open_unmix_2stems.py: one loop over the stems,    *)
(*               each stem loaded, exported to ONNX, converted to a        *)
(*               SavedModel and to TensorFlow.js, then copied ("staged")   *)
(*               into the stem's directory, all inside one try/except.     *)
(*   "umx_tfjs"  convert_umx_to_tfjs.py: one hub load, a first loop that   *)
(*               exports every stem to ONNX, an exit when none exported,   *)
(*               a second loop that converts and stages each export.       *)
(*                                                                         *)
(*   "download_models"       download_models.py: each weight file is       *)
(*               fetched into downloaded_models/ unless it is there.       *)
(*   "download_and_convert"  download_and_convert.py: each weight file is  *)
(*               fetched, then loaded with torch.load.                     *)
(*                                                                         *)
(* A step of the model is one statement (or one library call) of a script. *)
(* A library call either returns or raises; a call that writes a file may  *)
(* raise before it touched the file or after it wrote part of it.  A copy  *)
(* (shutil.copy) is two steps: the destination is opened and truncated,    *)
(* then the bytes are written; a reader can run between the two.           *)
(***************************************************************************)
EXTENDS Naturals, Sequences, FiniteSets, TLC

\* Bounds of the model.
MaxShards == 2
MaxRuns == 2

Targets == {"vocals", "accompaniment"}
Scripts == {"2stems", "umx_tfjs", "download_models", "download_and_convert",
            "torch_hub", "simple", "open_unmix", "convert_onnx_to_tfjs"}
Converters == {"2stems", "umx_tfjs"}

\* convert_open_unmix_2stems.py: stems = ['vocals', 'accompaniment']
stems == <<"vocals", "accompaniment">>
\* The dictionary with a second stem added to it.
stems_to_convert_both == <<"vocals", "accompaniment">>

\* convert_umx_to_tfjs.py: stems_to_convert = {'vocals': ...}
stems_to_convert == <<"vocals">>
\* download_models.py, download_and_convert.py: the keys of MODEL_URLS
MODEL_URLS == <<"vocals", "accompaniment">>

VARIABLES
    script,       \* the script this process runs
    run,          \* 1 for the first run of the script, 2 for a rerun, ...
    pc,           \* the statement the script is at
    idx,          \* position of the running for loop in its sequence
    state,        \* per stem: how far its chain got, "Converted" / "Failed" once printed
    failedAt,     \* per stem: the step whose error was printed for it
    fs,           \* per stem: the files of converted_models/umx-2stems/<stem>/
    onnx_models,  \* convert_umx_to_tfjs.py: the stems exported by the first loop
    todo,         \* the *.bin files of tfjs_model/ still to copy
    cpy,          \* the *.bin file being copied (0: none)
    exitCode,     \* the exit code the process ends with (read once it has ended)
    prior,        \* per stem: the staged files the previous run left, when complete
    nbin,         \* how many weight shards the TensorFlow.js converter writes
    cache,        \* per stem: the file downloaded_models/umx_<stem>.pth
    validAtStart, \* the stems whose cache file was whole when this run started
    downloaded,   \* the download scripts' list (dict) of obtained stems
    fetched,      \* the stems urlretrieve was called for in this run
    models,       \* download_and_convert.py, convert_simple.py: the stems held as loaded models
    attempts,     \* per stem: the torch.hub acquisitions tried for it in this run, in order
    loadedBy,     \* per stem: the acquisition that gave the model held for it ("none": no model)
    quantize      \* the weight quantization of the last TensorFlow.js conversion ("unset": none ran)

dlVars == <<cache, validAtStart, downloaded, fetched, models>>

hubVars == <<attempts, loadedBy>>

vars == <<script, run, pc, idx, state, failedAt, fs, onnx_models, todo, cpy,
          exitCode, prior, nbin, cache, validAtStart, downloaded, fetched, models,
          attempts, loadedBy, quantize>>

Shards == 1..MaxShards

\* A file: its bytes ("none": no such file, "part": truncated or half written,
\* "full": everything its writer had to write) and the run that wrote them.
Absent == [data |-> "none", by |-> "none"]
New(d) == [data |-> d, by |-> "new"]
Exists(c) == c.data # "none"

EmptyDir ==
    [onnx |-> Absent, saved_model |-> Absent,
     tfjs_json |-> Absent, tfjs_bin |-> [k \in Shards |-> Absent],
     model_json |-> Absent, bin |-> [k \in Shards |-> Absent]]

\* The bytes of the staged files of a stem directory: model.json and *.bin.
Staged(d) ==
    [model_json |-> d.model_json.data, bin |-> [k \in Shards |-> d.bin[k].data]]

Requested ==
    CASE script = "2stems" -> stems
      [] script = "umx_tfjs" -> stems_to_convert
      [] OTHER -> MODEL_URLS

RequestedSet == {Requested[i] : i \in 1..Len(Requested)}

Terminal == {"Converted", "Failed"}

\* The process has ended: it ran off its end or called sys.exit ("exited"),
\* or an exception nothing caught in the loop ended it ("fatal").
Exited == pc \in {"exited", "fatal"}

\* The process was ended by the KeyboardInterrupt handler of __main__.
Cancelled == pc = "cancelled"

Init ==
    /\ script \in Scripts
    /\ run = 1
    /\ pc = "start"
    /\ idx = 1
    /\ state = [t \in Targets |-> "Pending"]
    /\ failedAt = [t \in Targets |-> "none"]
    /\ fs = [t \in Targets |-> EmptyDir]
    /\ onnx_models = <<>>
    /\ todo = {}
    /\ cpy = 0
    /\ exitCode = 0
    /\ prior = [t \in Targets |-> [valid |-> FALSE, staged |-> Staged(EmptyDir)]]
    /\ nbin \in Shards
    /\ cache = [t \in Targets |-> Absent]
    /\ validAtStart = {}
    /\ downloaded = <<>>
    /\ fetched = {}
    /\ models = {}
    /\ attempts = [t \in Targets |-> <<>>]
    /\ loadedBy = [t \in Targets |-> "none"]
    /\ quantize = "unset"

----------------------------------------------------------------------------
(* Library calls and the handlers around them.                             *)

\* What a call that writes one file can do: return, raise before it touched
\* the file, or raise with the file half written.
Outcomes == {"ok", "raise_before", "raise_during"}

\* try: <call> ... : the statements after the call run when it returned.
Returned_swallow(o) == TRUE

Returned(o) == o \in {"ok", "ok_nojson"}

\* The directory of stem t after a call that writes `field` ended with o.
StageWrite(t, field, o) ==
    CASE o = "ok" -> [fs EXCEPT ![t][field] = New("full")]
      [] o = "raise_during" -> [fs EXCEPT ![t][field] = New("part")]
      [] OTHER -> fs

\* The loop position after the except clause of a loop body: `continue`.
AfterFailure_break(i, seq) == Len(seq) + 1

AfterFailure(i, seq) == i + 1

\* convert_umx_to_tfjs.py, the second loop: for stem_name, onnx_path in
\* onnx_models.items()
Loop2Stems_all == stems_to_convert

Loop2Stems == onnx_models

\* The stem the running loop is at.
cur ==
    IF script = "2stems" THEN stems[idx]
    ELSE IF pc \in {"loop1", "onnx"} THEN stems_to_convert[idx]
    ELSE Loop2Stems[idx]

\* The loop head the except clause continues at.
LoopPc == IF script = "2stems" THEN "loop" ELSE "loop2"

\* except Exception as e: print(f"Error converting {stem}: {e}"); continue
Except(t, step, seq) ==
    /\ state' = [state EXCEPT ![t] = "Failed"]
    /\ failedAt' = [failedAt EXCEPT ![t] = step]
    /\ idx' = AfterFailure(idx, seq)
    /\ pc' = LoopPc
    /\ todo' = {}
    /\ cpy' = 0

\* An exception outside every try of the loop body reaches the handler of
\* __main__ (or the interpreter): "Fatal error" and the traceback are
\* printed, the process exits 1, the loop is abandoned.
Fatal ==
    /\ exitCode' = 1
    /\ pc' = "fatal"
    /\ UNCHANGED <<state, failedAt, fs, idx, onnx_models, todo, cpy>>

\* The exit code of a script that runs off its end.
FinishExit_strict(st) == IF \E t \in RequestedSet : st[t] = "Failed" THEN 1 ELSE 0

FinishExit(st) == 0

----------------------------------------------------------------------------
(* The steps both converters share: ONNX -> SavedModel -> TensorFlow.js,   *)
(* then the copy of model.json and of every *.bin into the stem directory. *)

\* onnx.load + prepare + export_graph (2stems), onnx2tf.convert (umx_tfjs):
\* reads <stem>.onnx, writes <stem_dir>/saved_model.
DoConvertTF(t, seq) ==
    /\ pc = "tf"
    /\ \E o \in Outcomes :
        /\ fs' = StageWrite(t, "saved_model", o)
        /\ IF Returned(o)
           THEN /\ state' = [state EXCEPT ![t] = "ConvertingTFJS"]
                /\ pc' = "tfjs"
                /\ UNCHANGED <<failedAt, idx, todo, cpy>>
           ELSE Except(t, "tf", seq)
    /\ UNCHANGED <<dlVars, hubVars, quantize, script, run, onnx_models,
                   exitCode, prior, nbin>>

\* What tfjs.converters.convert_tf_saved_model can do: write model.json and
\* nbin shards and return; return having written no model.json; raise before
\* it wrote; raise with a shard half written.
TfjsOutcomes == {"ok", "ok_nojson", "raise_before", "raise_during"}

TfjsWrite(t, o) ==
    CASE o = "ok" ->
            [fs EXCEPT ![t].tfjs_json = New("full"),
                       ![t].tfjs_bin = [k \in Shards |->
                            IF k <= nbin THEN New("full") ELSE fs[t].tfjs_bin[k]]]
      [] o = "raise_during" -> [fs EXCEPT ![t].tfjs_bin[1] = New("part")]
      [] OTHER -> fs

\* tfjs.converters.convert_tf_saved_model(saved_model_path, tfjs_path): no
\* quantization argument is passed, the weights keep their precision.
TfjsQuantization == "off"

\* tfjs.converters.convert_tf_saved_model(saved_model_path, tfjs_path)
DoConvertTFJS(t, seq) ==
    /\ pc = "tfjs"
    /\ quantize' = TfjsQuantization
    /\ \E o \in TfjsOutcomes :
        /\ fs' = TfjsWrite(t, o)
        /\ IF Returned(o)
           THEN /\ state' = [state EXCEPT ![t] = "Staging"]
                /\ pc' = "check"
                /\ UNCHANGED <<failedAt, idx, todo, cpy>>
           ELSE Except(t, "tfjs", seq)
    /\ UNCHANGED <<dlVars, hubVars, script, run, onnx_models, exitCode, prior,
                   nbin>>

\* tfjs_path.glob("*.bin")
Glob(t) == {k \in Shards : Exists(fs[t].tfjs_bin[k])}

\* The file the for loop over the glob takes next: the files are taken in
\* the order of their shard numbers.
NextFile(S) == CHOOSE k \in S : \A j \in S : k <= j

\* shutil.copy(model_json, stem_dir / "model.json"), first half: the source
\* is opened, the destination is opened for writing and so truncated.
DoCopyJsonOpen(t, seq) ==
    /\ pc = "copy_json"
    /\ \/ /\ fs' = [fs EXCEPT ![t].model_json = New("part")]
          /\ pc' = "copying_json"
          /\ UNCHANGED <<state, failedAt, idx, todo, cpy>>
       \/ /\ Except(t, "staging", seq)
          /\ UNCHANGED fs
    /\ UNCHANGED <<dlVars, hubVars, quantize, script, run, onnx_models,
                   exitCode, prior, nbin>>

\* shutil.copy, second half: the bytes of the source are written; then the
\* for loop over glob("*.bin") starts.
DoCopyJsonWrite(t, seq) ==
    /\ pc = "copying_json"
    /\ \/ /\ fs' = [fs EXCEPT ![t].model_json = New(fs[t].tfjs_json.data)]
          /\ pc' = "copy_bin"
          /\ todo' = Glob(t)
          /\ UNCHANGED <<state, failedAt, idx, cpy>>
       \/ /\ Except(t, "staging", seq)
          /\ UNCHANGED fs
    /\ UNCHANGED <<dlVars, hubVars, quantize, script, run, onnx_models,
                   exitCode, prior, nbin>>

\* shutil.copy(weight_file, stem_dir / weight_file.name), first half.
DoCopyBinOpen(t, seq) ==
    /\ pc = "copy_bin"
    /\ todo # {}
    /\ \/ LET k == NextFile(todo) IN
            /\ fs' = [fs EXCEPT ![t].bin[k] = New("part")]
            /\ cpy' = k
            /\ pc' = "copying_bin"
            /\ UNCHANGED <<state, failedAt, idx, todo>>
       \/ /\ Except(t, "staging", seq)
          /\ UNCHANGED fs
    /\ UNCHANGED <<dlVars, hubVars, quantize, script, run, onnx_models,
                   exitCode, prior, nbin>>

\* shutil.copy(weight_file, ...), second half.
DoCopyBinWrite(t, seq) ==
    /\ pc = "copying_bin"
    /\ \/ /\ fs' = [fs EXCEPT ![t].bin[cpy] = New(fs[t].tfjs_bin[cpy].data)]
          /\ todo' = todo \ {cpy}
          /\ cpy' = 0
          /\ pc' = "copy_bin"
          /\ UNCHANGED <<state, failedAt, idx>>
       \/ /\ Except(t, "staging", seq)
          /\ UNCHANGED fs
    /\ UNCHANGED <<dlVars, hubVars, quantize, script, run, onnx_models,
                   exitCode, prior, nbin>>

----------------------------------------------------------------------------
(* convert_open_unmix_2stems.py                                            *)

\* output_base.mkdir(parents=True, exist_ok=True); stems = [...]
A_Start ==
    /\ script = "2stems"
    /\ pc = "start"
    /\ pc' = "loop"
    /\ idx' = 1
    /\ UNCHANGED <<dlVars, hubVars, quantize, script, run, state, failedAt, fs,
                   onnx_models, todo, cpy,
                   exitCode, prior, nbin>>

\* for stem in stems: stem_dir = output_base / stem; stem_dir.mkdir(exist_ok=True)
\* The mkdir stands before the try: when it raises, the error leaves the loop.
A_Mkdir ==
    /\ script = "2stems"
    /\ pc = "loop"
    /\ idx <= Len(stems)
    /\ \/ /\ state' = [state EXCEPT ![cur] = "Resolving"]
          /\ pc' = "load"
          /\ UNCHANGED <<failedAt, fs, idx, onnx_models, todo, cpy, exitCode>>
       \/ Fatal
    /\ UNCHANGED <<dlVars, hubVars, quantize, script, run, prior, nbin>>

\* model = openunmix.umx(pretrained=True, target=stem)
A_Load ==
    /\ script = "2stems"
    /\ pc = "load"
    /\ \/ /\ state' = [state EXCEPT ![cur] = "Exporting"]
          /\ pc' = "onnx"
          /\ UNCHANGED <<failedAt, idx, todo, cpy>>
       \/ Except(cur, "load", stems)
    /\ UNCHANGED <<dlVars, hubVars, quantize, script, run, fs, onnx_models,
                   exitCode, prior, nbin>>

\* onnx_path = convert_pytorch_to_onnx(model, stem_dir, stem)
A_Export ==
    /\ script = "2stems"
    /\ pc = "onnx"
    /\ \E o \in Outcomes :
        /\ fs' = StageWrite(cur, "onnx", o)
        /\ IF Returned(o)
           THEN /\ state' = [state EXCEPT ![cur] = "ConvertingTF"]
                /\ pc' = "tf"
                /\ UNCHANGED <<failedAt, idx, todo, cpy>>
           ELSE Except(cur, "onnx", stems)
    /\ UNCHANGED <<dlVars, hubVars, quantize, script, run, onnx_models,
                   exitCode, prior, nbin>>

\* convert_onnx_to_tfjs, first half: ONNX -> SavedModel
A_ConvertTF == script = "2stems" /\ DoConvertTF(cur, stems)

\* convert_onnx_to_tfjs, second half: SavedModel -> TensorFlow.js
A_ConvertTFJS == script = "2stems" /\ DoConvertTFJS(cur, stems)

\* if model_json.exists(): ... else: print("Error: model.json not found")
A_CheckJson ==
    /\ script = "2stems"
    /\ pc = "check"
    /\ IF Exists(fs[cur].tfjs_json)
       THEN /\ pc' = "copy_json"
            /\ UNCHANGED <<state, failedAt, idx>>
       ELSE /\ state' = [state EXCEPT ![cur] = "Failed"]
            /\ failedAt' = [failedAt EXCEPT ![cur] = "descriptor"]
            /\ idx' = idx + 1
            /\ pc' = "loop"
    /\ UNCHANGED <<dlVars, hubVars, quantize, script, run, fs, onnx_models,
                   todo, cpy, exitCode, prior, nbin>>

A_CopyJsonOpen == script = "2stems" /\ DoCopyJsonOpen(cur, stems)

A_CopyJsonWrite == script = "2stems" /\ DoCopyJsonWrite(cur, stems)

A_CopyBinOpen == script = "2stems" /\ DoCopyBinOpen(cur, stems)

A_CopyBinWrite == script = "2stems" /\ DoCopyBinWrite(cur, stems)

\* print(f"{stem} model converted successfully!"), inside if model_json.exists()
A_Success ==
    /\ script = "2stems"
    /\ pc = "copy_bin"
    /\ todo = {}
    /\ state' = [state EXCEPT ![cur] = "Converted"]
    /\ idx' = idx + 1
    /\ pc' = "loop"
    /\ UNCHANGED <<dlVars, hubVars, quantize, script, run, failedAt, fs,
                   onnx_models, todo, cpy, exitCode,
                   prior, nbin>>

\* The loop is over: "Conversion complete!", the function returns, the
\* process ends.
A_Finish ==
    /\ script = "2stems"
    /\ pc = "loop"
    /\ idx > Len(stems)
    /\ exitCode' = FinishExit(state)
    /\ pc' = "exited"
    /\ UNCHANGED <<dlVars, hubVars, quantize, script, run, idx, state,
                   failedAt, fs, onnx_models, todo, cpy,
                   prior, nbin>>

----------------------------------------------------------------------------
(* convert_umx_to_tfjs.py                                                  *)

\* separator = torch.hub.load(repo, 'umx', pretrained=True, trust_repo=True)
\* No try surrounds it: when it raises, the interpreter exits 1.
B_HubLoad ==
    /\ script = "umx_tfjs"
    /\ pc = "start"
    /\ \/ /\ state' = [t \in Targets |->
                        IF t \in RequestedSet THEN "Resolved" ELSE state[t]]
          /\ pc' = "loop1"
          /\ idx' = 1
          /\ UNCHANGED <<failedAt, fs, onnx_models, todo, cpy, exitCode>>
       \/ Fatal
    /\ UNCHANGED <<dlVars, hubVars, quantize, script, run, prior, nbin>>

\* for stem_name, model in stems_to_convert.items(): stem_dir.mkdir(exist_ok=True)
\* The mkdir stands before the try.
B_Mkdir ==
    /\ script = "umx_tfjs"
    /\ pc = "loop1"
    /\ idx <= Len(stems_to_convert)
    /\ \/ /\ state' = [state EXCEPT ![cur] = "Exporting"]
          /\ pc' = "onnx"
          /\ UNCHANGED <<failedAt, fs, idx, onnx_models, todo, cpy, exitCode>>
       \/ Fatal
    /\ UNCHANGED <<dlVars, hubVars, quantize, script, run, prior, nbin>>

\* try: torch.onnx.export(...); onnx_models[stem_name] = onnx_path
\* except Exception: ...; continue
B_Export ==
    /\ script = "umx_tfjs"
    /\ pc = "onnx"
    /\ \E o \in Outcomes :
        /\ fs' = StageWrite(cur, "onnx", o)
        /\ IF Returned(o)
           THEN /\ onnx_models' = Append(onnx_models, cur)
                /\ state' = [state EXCEPT ![cur] = "Exported"]
                /\ idx' = idx + 1
                /\ UNCHANGED failedAt
           ELSE /\ state' = [state EXCEPT ![cur] = "Failed"]
                /\ failedAt' = [failedAt EXCEPT ![cur] = "onnx"]
                /\ idx' = AfterFailure(idx, stems_to_convert)
                /\ UNCHANGED onnx_models
    /\ pc' = "loop1"
    /\ UNCHANGED <<dlVars, hubVars, quantize, script, run, todo, cpy, exitCode,
                   prior, nbin>>

\* if not onnx_models: print("No models converted to ONNX."); sys.exit(1)
B_CheckOnnx ==
    /\ script = "umx_tfjs"
    /\ pc = "loop1"
    /\ idx > Len(stems_to_convert)
    /\ IF onnx_models = <<>>
       THEN /\ exitCode' = 1
            /\ pc' = "exited"
            /\ UNCHANGED idx
       ELSE /\ pc' = "loop2"
            /\ idx' = 1
            /\ UNCHANGED exitCode
    /\ UNCHANGED <<dlVars, hubVars, quantize, script, run, state, failedAt, fs,
                   onnx_models, todo, cpy,
                   prior, nbin>>

\* for stem_name, onnx_path in onnx_models.items(): stem_dir = ...; try:
B_Loop2 ==
    /\ script = "umx_tfjs"
    /\ pc = "loop2"
    /\ idx <= Len(Loop2Stems)
    /\ state' = [state EXCEPT ![cur] = "ConvertingTF"]
    /\ pc' = "tf"
    /\ UNCHANGED <<dlVars, hubVars, quantize, script, run, idx, failedAt, fs,
                   onnx_models, todo, cpy,
                   exitCode, prior, nbin>>

\* onnx2tf.convert(input_onnx_file_path=..., output_folder_path=saved_model_path)
B_ConvertTF == script = "umx_tfjs" /\ DoConvertTF(cur, Loop2Stems)

\* tfjs.converters.convert_tf_saved_model(saved_model_path, tfjs_path)
B_ConvertTFJS == script = "umx_tfjs" /\ DoConvertTFJS(cur, Loop2Stems)

\* if model_json.exists(): (copies); the "conversion complete!" print follows
\* the if, whichever way it went.
B_CheckJson ==
    /\ script = "umx_tfjs"
    /\ pc = "check"
    /\ pc' = IF Exists(fs[cur].tfjs_json) THEN "copy_json" ELSE "complete"
    /\ UNCHANGED <<dlVars, hubVars, quantize, script, run, idx, state,
                   failedAt, fs, onnx_models, todo, cpy,
                   exitCode, prior, nbin>>

B_CopyJsonOpen == script = "umx_tfjs" /\ DoCopyJsonOpen(cur, Loop2Stems)

B_CopyJsonWrite == script = "umx_tfjs" /\ DoCopyJsonWrite(cur, Loop2Stems)

B_CopyBinOpen == script = "umx_tfjs" /\ DoCopyBinOpen(cur, Loop2Stems)

B_CopyBinWrite == script = "umx_tfjs" /\ DoCopyBinWrite(cur, Loop2Stems)

\* print(f"{stem_name} conversion complete!")
B_Complete ==
    /\ script = "umx_tfjs"
    /\ pc = "complete" \/ (pc = "copy_bin" /\ todo = {})
    /\ state' = [state EXCEPT ![cur] = "Converted"]
    /\ idx' = idx + 1
    /\ pc' = "loop2"
    /\ UNCHANGED <<dlVars, hubVars, quantize, script, run, failedAt, fs,
                   onnx_models, todo, cpy, exitCode,
                   prior, nbin>>

\* The second loop is over: the summary is printed, the script ends.
B_Finish ==
    /\ script = "umx_tfjs"
    /\ pc = "loop2"
    /\ idx > Len(Loop2Stems)
    /\ exitCode' = FinishExit(state)
    /\ pc' = "exited"
    /\ UNCHANGED <<dlVars, hubVars, quantize, script, run, idx, state,
                   failedAt, fs, onnx_models, todo, cpy,
                   prior, nbin>>

----------------------------------------------------------------------------
(* The same script started again over the directories the last run left.   *)

AgeFile(c) == IF c.by = "new" THEN [c EXCEPT !.by = "old"] ELSE c

AgeDir(d) ==
    [onnx |-> AgeFile(d.onnx), saved_model |-> AgeFile(d.saved_model),
     tfjs_json |-> AgeFile(d.tfjs_json),
     tfjs_bin |-> [k \in Shards |-> AgeFile(d.tfjs_bin[k])],
     model_json |-> AgeFile(d.model_json),
     bin |-> [k \in Shards |-> AgeFile(d.bin[k])]]

\* A stem directory that holds a complete staged output: the descriptor and
\* every shard the converter writes, each of them whole.
CompleteOutput(d) ==
    /\ d.model_json.data = "full"
    /\ \A k \in 1..nbin : d.bin[k].data = "full"

Rerun ==
    /\ Exited \/ Cancelled
    /\ run < MaxRuns
    /\ run' = run + 1
    /\ pc' = "start"
    /\ idx' = 1
    /\ state' = [t \in Targets |-> "Pending"]
    /\ failedAt' = [t \in Targets |-> "none"]
    /\ fs' = [t \in Targets |-> AgeDir(fs[t])]
    /\ onnx_models' = <<>>
    /\ todo' = {}
    /\ cpy' = 0
    /\ exitCode' = 0
    /\ prior' = [t \in Targets |->
                    IF CompleteOutput(fs[t])
                    THEN [valid |-> TRUE, staged |-> Staged(fs[t])]
                    ELSE [valid |-> FALSE, staged |-> Staged(EmptyDir)]]
    /\ cache' = [t \in Targets |-> AgeFile(cache[t])]
    /\ validAtStart' = {t \in Targets : cache[t].data = "full"}
    /\ downloaded' = <<>>
    /\ fetched' = {}
    /\ models' = {}
    /\ attempts' = [t \in Targets |-> <<>>]
    /\ loadedBy' = [t \in Targets |-> "none"]
    /\ quantize' = "unset"
    /\ UNCHANGED <<script, nbin>>

----------------------------------------------------------------------------
(* download_models.py and download_and_convert.py                          *)

\* output_dir.mkdir(exist_ok=True); downloaded = []
DL_Start ==
    /\ script \in {"download_models", "download_and_convert"}
    /\ pc = "start"
    /\ pc' = "dl_loop"
    /\ idx' = 1
    /\ UNCHANGED <<dlVars, hubVars, quantize, script, run, state, failedAt, fs,
                   onnx_models, todo,
                   cpy, exitCode, prior, nbin>>

\* download_models.py: if filename.exists(): downloaded.append(filename); continue
SkipIfExists_never(c) == FALSE

SkipIfExists(c) == Exists(c)

\* urllib.request.urlretrieve(url, filename), first half: the request is
\* made (it may raise) and the file is opened for writing, so truncated.
UrlretrieveOpen(t) ==
    \/ /\ cache' = [cache EXCEPT ![t] = New("part")]
       /\ fetched' = fetched \cup {t}
       /\ pc' = "dl_write"
       /\ UNCHANGED <<idx, downloaded>>
    \/ /\ fetched' = fetched \cup {t}
       /\ idx' = idx + 1
       /\ pc' = "dl_loop"
       /\ UNCHANGED <<cache, downloaded>>

\* urlretrieve, second half: the blocks are written; a short read raises
\* and leaves what was written.  True is returned only when it returned.
UrlretrieveWrite(t) ==
    /\ \/ /\ cache' = [cache EXCEPT ![t] = New("full")]
          /\ downloaded' = Append(downloaded, t)
       \/ UNCHANGED <<cache, downloaded>>
    /\ idx' = idx + 1
    /\ pc' = "dl_loop"
    /\ UNCHANGED fetched

\* download_models.py main: for stem, url in MODEL_URLS.items(): ...
C_Check ==
    /\ script = "download_models"
    /\ pc = "dl_loop"
    /\ idx <= Len(MODEL_URLS)
    /\ IF SkipIfExists(cache[MODEL_URLS[idx]])
       THEN /\ downloaded' = Append(downloaded, MODEL_URLS[idx])
            /\ idx' = idx + 1
            /\ UNCHANGED pc
       ELSE /\ pc' = "dl_open"
            /\ UNCHANGED <<idx, downloaded>>
    /\ UNCHANGED <<cache, validAtStart, fetched, models, hubVars, quantize,
                   script, run, state,
                   failedAt, fs, onnx_models, todo, cpy, exitCode, prior, nbin>>

\* download_file(url, filename)
C_DownloadOpen ==
    /\ script = "download_models"
    /\ pc = "dl_open"
    /\ UrlretrieveOpen(MODEL_URLS[idx])
    /\ UNCHANGED <<validAtStart, models, hubVars, quantize, script, run, state,
                   failedAt, fs,
                   onnx_models, todo, cpy, exitCode, prior, nbin>>

C_DownloadWrite ==
    /\ script = "download_models"
    /\ pc = "dl_write"
    /\ UrlretrieveWrite(MODEL_URLS[idx])
    /\ UNCHANGED <<validAtStart, models, hubVars, quantize, script, run, state,
                   failedAt, fs,
                   onnx_models, todo, cpy, exitCode, prior, nbin>>

\* if downloaded: (summary) else: print("No models downloaded."); main returns
C_Finish ==
    /\ script = "download_models"
    /\ pc = "dl_loop"
    /\ idx > Len(MODEL_URLS)
    /\ exitCode' = 0
    /\ pc' = "exited"
    /\ UNCHANGED <<dlVars, hubVars, quantize, script, run, idx, state,
                   failedAt, fs, onnx_models,
                   todo, cpy, prior, nbin>>

\* download_and_convert.py main: for stem, url in MODEL_URLS.items():
\*     if download_model(url, filename): downloaded[stem] = filename
D_DownloadOpen ==
    /\ script = "download_and_convert"
    /\ pc = "dl_loop"
    /\ idx <= Len(MODEL_URLS)
    /\ UrlretrieveOpen(MODEL_URLS[idx])
    /\ UNCHANGED <<validAtStart, models, hubVars, quantize, script, run, state,
                   failedAt, fs,
                   onnx_models, todo, cpy, exitCode, prior, nbin>>

D_DownloadWrite ==
    /\ script = "download_and_convert"
    /\ pc = "dl_write"
    /\ UrlretrieveWrite(MODEL_URLS[idx])
    /\ UNCHANGED <<validAtStart, models, hubVars, quantize, script, run, state,
                   failedAt, fs,
                   onnx_models, todo, cpy, exitCode, prior, nbin>>

\* if not downloaded: (advice); return    else: "Step 2: Loading models..."
D_AfterDownload ==
    /\ script = "download_and_convert"
    /\ pc = "dl_loop"
    /\ idx > Len(MODEL_URLS)
    /\ IF downloaded = <<>>
       THEN /\ exitCode' = 0
            /\ pc' = "exited"
            /\ UNCHANGED idx
       ELSE /\ pc' = "load_loop"
            /\ idx' = 1
            /\ UNCHANGED exitCode
    /\ UNCHANGED <<dlVars, hubVars, quantize, script, run, state, failedAt, fs,
                   onnx_models, todo,
                   cpy, prior, nbin>>

\* load_pytorch_model(model_path): "We need to reconstruct the model
\* architecture / For now, return the checkpoint": what it returns for a
\* stem is never a model whose architecture was rebuilt.
Reconstructed(t) == FALSE

\* load_pytorch_model(model_path): torch.load returns the checkpoint (the
\* state dict), which is returned as the model; None when torch.load raises.
\* for stem, path in downloaded.items(): model = ...; if model: models[stem] = model
D_LoadModel ==
    /\ script = "download_and_convert"
    /\ pc = "load_loop"
    /\ idx <= Len(downloaded)
    /\ \/ /\ cache[downloaded[idx]].data = "full"
          /\ models' = models \cup {downloaded[idx]}
       \/ UNCHANGED models
    /\ idx' = idx + 1
    /\ UNCHANGED <<cache, validAtStart, downloaded, fetched, hubVars, quantize,
                   script, run, pc,
                   state, failedAt, fs, onnx_models, todo, cpy, exitCode, prior,
                   nbin>>

\* if models: ... else: ...; main returns
D_Finish ==
    /\ script = "download_and_convert"
    /\ pc = "load_loop"
    /\ idx > Len(downloaded)
    /\ exitCode' = 0
    /\ pc' = "exited"
    /\ UNCHANGED <<dlVars, hubVars, quantize, script, run, idx, state,
                   failedAt, fs, onnx_models,
                   todo, cpy, prior, nbin>>

----------------------------------------------------------------------------
(* convert_with_torch_hub.py and convert_simple.py                         *)

\* Neither script reads an option, an argument or an environment variable:
\* nothing configures whether a second acquisition may follow a failed one.
FallbackConfigured == FALSE

\* One more torch.hub.load for stem t, of the kind given.
Tried(a, t, kind) == [a EXCEPT ![t] = Append(@, kind)]

\* convert_with_torch_hub.py: try: separator = torch.hub.load(repo, 'umx',
\* pretrained=True, ...); prints; output_dir.mkdir(exist_ok=True)
\* except Exception: "Alternative: Try loading specific targets"
\* The try ends the script, torch.hub.load raises, or a later statement of
\* the try raises with the separator loaded.
H_LoadSeparator ==
    /\ script = "torch_hub"
    /\ pc = "start"
    /\ attempts' = [t \in Targets |-> Append(attempts[t], "separator")]
    /\ \/ /\ loadedBy' = [t \in Targets |-> "separator"]
          /\ pc' = "exited"
          /\ exitCode' = 0
       \/ /\ pc' = "alt_vocals"
          /\ UNCHANGED <<loadedBy, exitCode>>
       \/ /\ loadedBy' = [t \in Targets |-> "separator"]
          /\ pc' = "alt_vocals"
          /\ UNCHANGED exitCode
    /\ UNCHANGED <<dlVars, quantize, script, run, idx, state, failedAt, fs,
                   onnx_models,
                   todo, cpy, prior, nbin>>

\* the handler's try: <t>_model = torch.hub.load(repo, 'umx', target=t, ...)
\* except Exception as e2: ...; sys.exit(1)
LoadTarget(t, after) ==
    /\ attempts' = Tried(attempts, t, "target")
    /\ \/ /\ loadedBy' = [loadedBy EXCEPT ![t] = "target"]
          /\ pc' = after
          /\ exitCode' = IF after = "exited" THEN 0 ELSE exitCode
       \/ /\ pc' = "exited"
          /\ exitCode' = 1
          /\ UNCHANGED loadedBy
    /\ UNCHANGED <<dlVars, quantize, script, run, idx, state, failedAt, fs,
                   onnx_models,
                   todo, cpy, prior, nbin>>

H_LoadVocals ==
    /\ script = "torch_hub"
    /\ pc = "alt_vocals"
    /\ LoadTarget("vocals", "alt_accompaniment")

H_LoadAccompaniment ==
    /\ script = "torch_hub"
    /\ pc = "alt_accompaniment"
    /\ LoadTarget("accompaniment", "exited")

\* convert_simple.py: for stem in stems: try: model = torch.hub.load(
\* model_url, 'umx', target=stem, pretrained=True); models[stem] = model
\* except Exception: "Trying alternative method...", which only prints.
S_Load ==
    /\ script = "simple"
    /\ pc = "start"
    /\ idx <= Len(stems)
    /\ attempts' = Tried(attempts, stems[idx], "target")
    /\ \/ /\ models' = models \cup {stems[idx]}
          /\ loadedBy' = [loadedBy EXCEPT ![stems[idx]] = "target"]
       \/ UNCHANGED <<models, loadedBy>>
    /\ idx' = idx + 1
    /\ UNCHANGED <<cache, validAtStart, downloaded, fetched, quantize, script,
                   run, pc,
                   state, failedAt, fs, onnx_models, todo, cpy, exitCode, prior,
                   nbin>>

\* if models: ... else: "Could not download models automatically."; the
\* script runs off its end either way.
S_Finish ==
    /\ script = "simple"
    /\ pc = "start"
    /\ idx > Len(stems)
    /\ pc' = "exited"
    /\ exitCode' = 0
    /\ UNCHANGED <<dlVars, hubVars, quantize, script, run, idx, state,
                   failedAt, fs,
                   onnx_models, todo, cpy, prior, nbin>>

----------------------------------------------------------------------------
(* convert_open_unmix.py                                                   *)

\* main: if not check_dependencies(): sys.exit(1); prints;
\* os.makedirs(args.output, exist_ok=True).  No conversion function is
\* called and no option of the parser is about quantization.
U_Main ==
    /\ script = "open_unmix"
    /\ pc = "start"
    /\ \/ /\ exitCode' = 1
          /\ pc' = "exited"
       \/ /\ exitCode' = 0
          /\ pc' = "exited"
       \/ /\ exitCode' = 1
          /\ pc' = "fatal"
    /\ UNCHANGED <<dlVars, hubVars, quantize, script, run, idx, state,
                   failedAt,
                   fs, onnx_models, todo, cpy, prior, nbin>>

\* convert_onnx_to_tfjs(onnx_path, output_path) has no parameter for the
\* precision: its caller cannot ask for a quantization, or against one.
QuantizationRequested == FALSE

\* cmd = ['tensorflowjs_converter', '--input_format=onnx',
\*        '--output_format=tfjs_graph_model', '--quantize_float16', ...]
ConverterCommandQuantization == "float16"

\* convert_onnx_to_tfjs(onnx_path, output_path), called by a program that
\* imports convert_open_unmix (script = "convert_onnx_to_tfjs"):
\* subprocess.run(cmd, check=True) returns, or raises to the caller when the
\* converter is missing or exits non-zero.
U_ConvertOnnxToTfjs ==
    /\ script = "convert_onnx_to_tfjs"
    /\ pc = "start"
    /\ quantize' = ConverterCommandQuantization
    /\ \/ /\ exitCode' = 0
          /\ pc' = "exited"
       \/ /\ exitCode' = 1
          /\ pc' = "fatal"
    /\ UNCHANGED <<dlVars, hubVars, script, run, idx, state, failedAt, fs,
                   onnx_models, todo, cpy, prior, nbin>>

----------------------------------------------------------------------------
(* Ctrl-C                                                                  *)

\* The scripts whose __main__ has "except KeyboardInterrupt:".
HandlesInterrupt == {"2stems", "download_models", "download_and_convert"}

\* A KeyboardInterrupt is raised at the statement the script is at.  It is
\* not an Exception, so the "except Exception" around a stem's chain and the
\* one of download_file do not catch it: it unwinds to __main__, which
\* prints "... cancelled by user." and calls sys.exit(1).  Whatever the
\* interrupted call had written stays.
KeyboardInterrupt ==
    /\ script \in HandlesInterrupt
    /\ ~Exited /\ ~Cancelled
    /\ pc' = "cancelled"
    /\ exitCode' = 1
    /\ todo' = {}
    /\ cpy' = 0
    /\ UNCHANGED <<dlVars, hubVars, quantize, script, run, idx, state,
                   failedAt,
                   fs, onnx_models, prior, nbin>>

Next ==
    \/ A_Start \/ A_Mkdir \/ A_Load \/ A_Export \/ A_ConvertTF \/ A_ConvertTFJS
    \/ A_CheckJson \/ A_CopyJsonOpen \/ A_CopyJsonWrite \/ A_CopyBinOpen
    \/ A_CopyBinWrite \/ A_Success \/ A_Finish
    \/ B_HubLoad \/ B_Mkdir \/ B_Export \/ B_CheckOnnx \/ B_Loop2 \/ B_ConvertTF
    \/ B_ConvertTFJS \/ B_CheckJson \/ B_CopyJsonOpen \/ B_CopyJsonWrite
    \/ B_CopyBinOpen \/ B_CopyBinWrite \/ B_Complete \/ B_Finish
    \/ DL_Start \/ C_Check \/ C_DownloadOpen \/ C_DownloadWrite \/ C_Finish
    \/ D_DownloadOpen \/ D_DownloadWrite \/ D_AfterDownload \/ D_LoadModel
    \/ D_Finish
    \/ H_LoadSeparator \/ H_LoadVocals \/ H_LoadAccompaniment
    \/ S_Load \/ S_Finish
    \/ U_Main \/ U_ConvertOnnxToTfjs
    \/ KeyboardInterrupt
    \/ Rerun

Spec == Init /\ [][Next]_vars

----------------------------------------------------------------------------
(* Outcomes of a run of a converter.                                       *)

AllTerminal == \A t \in RequestedSet : state[t] \in Terminal

AllConverted == \A t \in RequestedSet : state[t] = "Converted"

AllFailed == \A t \in RequestedSet : state[t] = "Failed"

SomeConverted == \E t \in RequestedSet : state[t] = "Converted"

SomeFailed == \E t \in RequestedSet : state[t] = "Failed"

----------------------------------------------------------------------------
(* C1.  Cross-target isolation.  The step that makes a stem T Failed (at   *)
(* the model load, the export, a conversion or the staging copies) leaves  *)
(* the state, the failure record and every file of every other stem as     *)
(* they were and does not end the run; and when the run has run off its    *)
(* end, every stem whose own chain raised nothing is Converted, whatever   *)
(* happened to the others.                                                 *)
C1_FailedStep ==
    \A t \in Targets :
        (state[t] # "Failed" /\ state'[t] = "Failed") =>
            /\ \A u \in Targets \ {t} :
                    /\ fs'[u] = fs[u]
                    /\ state'[u] = state[u]
                    /\ failedAt'[u] = failedAt[u]
            /\ ~Exited'
            /\ exitCode' = exitCode

C1_OthersConverted ==
    (script \in Converters /\ pc = "exited") =>
        \A u \in RequestedSet : failedAt[u] = "none" => state[u] = "Converted"

----------------------------------------------------------------------------
(* C2.  When the loop of a converter ran over every requested stem, the    *)
(* process exits non-zero if and only if every stem ended Failed: 0 when   *)
(* at least one is Converted, non-zero when none is.                       *)
C2_ExitNonZeroIffAllFailed ==
    (script \in Converters /\ Exited /\ AllTerminal) =>
        (exitCode # 0 <=> AllFailed)

----------------------------------------------------------------------------
----------------------------------------------------------------------------
(* C4.  Per-stem stage ordering.  A stem enters a stage only from the      *)
(* stage before it, and only with that stage's artifact written whole by   *)
(* this run; it becomes Converted only from the staging step, which is     *)
(* entered only when the last conversion returned; and once a stem is      *)
(* Failed or Converted, no later step of the run changes its state or any  *)
(* file of its directory.                                                  *)
C4_StageStep ==
    \A t \in Targets :
        /\ (state'[t] # state[t] /\ run' = run) =>
            CASE state'[t] = "Resolving" -> state[t] = "Pending"
              [] state'[t] = "Resolved" -> state[t] = "Pending"
              [] state'[t] = "Exporting" -> state[t] \in {"Resolving", "Resolved"}
              [] state'[t] = "Exported" ->
                    state[t] = "Exporting" /\ fs'[t].onnx = New("full")
              [] state'[t] = "ConvertingTF" ->
                    state[t] \in {"Exporting", "Exported"} /\ fs'[t].onnx = New("full")
              [] state'[t] = "ConvertingTFJS" ->
                    state[t] = "ConvertingTF" /\ fs'[t].saved_model = New("full")
              [] state'[t] = "Staging" -> state[t] = "ConvertingTFJS"
              [] state'[t] = "Converted" -> state[t] = "Staging"
              [] state'[t] = "Failed" -> state[t] \notin Terminal
              [] OTHER -> FALSE
        /\ (state[t] \in Terminal /\ run' = run) =>
                state'[t] = state[t] /\ fs'[t] = fs[t]

\* C4: every step of a run keeps the order of the stages of each stem, and
\* Failed and Converted are terminal.
C4_StageOrder == [][C4_StageStep]_vars

\* C4's case: a run in which "vocals" went through every stage to Converted
\* and "accompaniment" failed at the ONNX -> SavedModel conversion, after
\* which nothing of the later stages was written for it.
C4_Witness ==
    /\ script = "2stems"
    /\ Exited
    /\ state["vocals"] = "Converted"
    /\ fs["vocals"].onnx = New("full")
    /\ fs["vocals"].saved_model = New("full")
    /\ fs["vocals"].tfjs_json = New("full")
    /\ state["accompaniment"] = "Failed"
    /\ failedAt["accompaniment"] = "tf"
    /\ fs["accompaniment"].onnx = New("full")
    /\ fs["accompaniment"].tfjs_json = Absent
    /\ fs["accompaniment"].model_json = Absent

----------------------------------------------------------------------------
(* Files of a stem directory.                                              *)

\* No file of directory d was written by the running process.
NothingNew(d) ==
    /\ d.onnx.by # "new"
    /\ d.saved_model.by # "new"
    /\ d.tfjs_json.by # "new"
    /\ d.model_json.by # "new"
    /\ \A k \in Shards : d.tfjs_bin[k].by # "new" /\ d.bin[k].by # "new"

----------------------------------------------------------------------------
(* C5.  A stem reported as converted has a complete artifact set in its    *)
(* directory: model.json, whole, and every shard the final stage wrote in  *)
(* this run; and a stem whose final stage wrote no model.json in this run  *)
(* is not reported as converted.                                           *)
C5_ConvertedIsComplete ==
    \A t \in Targets :
        (script \in Converters /\ state[t] = "Converted") =>
            /\ fs[t].tfjs_json.by = "new"
            /\ fs[t].model_json.data = "full"
            /\ \A k \in Shards :
                  fs[t].tfjs_bin[k].by = "new" => fs[t].bin[k].data = "full"

----------------------------------------------------------------------------
(* C6.  At the end of a run, the directory of a stem that ended Failed     *)
(* holds no file written by this run.                                      *)
C6_FailedLeavesNothing ==
    (script \in Converters /\ Exited) =>
        \A t \in Targets : state[t] = "Failed" => NothingNew(fs[t])

----------------------------------------------------------------------------
(* C7.  No error raised while a stem is processed leaves the loop: a       *)
(* converter ends only after every requested stem ran to Converted or      *)
(* Failed.                                                                 *)
C7_NoErrorEscapes ==
    (script \in Converters /\ Exited) => AllTerminal

----------------------------------------------------------------------------
(* C8.  A run over a stem directory that held a complete output of an      *)
(* earlier run ends, whether the stem is then Converted or Failed, with    *)
(* model.json and every shard of that directory holding the bytes they     *)
(* held before.                                                            *)
C8_PriorOutputKept ==
    (script \in Converters /\ pc = "exited") =>
        \A t \in Targets : prior[t].valid => Staged(fs[t]) = prior[t].staged

----------------------------------------------------------------------------
(* C9.  A stem whose cache file was whole when the run started is not      *)
(* downloaded again, its file stays as it was, and it is in the list of    *)
(* obtained stems when the acquisition ends.                               *)
C9_CachedNotFetched ==
    \A t \in validAtStart :
        /\ t \notin fetched
        /\ cache[t] = [data |-> "full", by |-> "old"]
        /\ Exited => \E i \in 1..Len(downloaded) : downloaded[i] = t

----------------------------------------------------------------------------
(* C10.  At every point of a run, each file under its final name in a stem *)
(* directory (model.json, a shard) is absent or whole, never half written. *)
C10_NoPartialFinalFile ==
    \A t \in Targets :
        /\ fs[t].model_json.data # "part"
        /\ \A k \in Shards : fs[t].bin[k].data # "part"

----------------------------------------------------------------------------
(* C11.  No run accepts an incomplete weight file as a cache entry: a stem *)
(* a run counts as obtained without downloading it (its cache file was     *)
(* found to exist) has a whole file under the final cache name.            *)
C11_CacheEntryIsWhole ==
    \A i \in 1..Len(downloaded) :
        downloaded[i] \notin fetched => cache[downloaded[i]].data = "full"

----------------------------------------------------------------------------
(* C13.  The direct-download resolver records a stem as a loaded model     *)
(* only when the model architecture was reconstructed for it: a bare       *)
(* weight checkpoint is never counted in models.                           *)
C13_LoadedIsReconstructed ==
    \A t \in models : Reconstructed(t)

----------------------------------------------------------------------------
(* C12.  Unless a fallback is configured, a stem is acquired by at most    *)
(* one attempt: after a failed acquisition no other one is tried for it,   *)
(* and a model held for it was given by its first and only attempt.        *)
C12_NoSilentFallback ==
    ~FallbackConfigured =>
        \A t \in Targets :
            /\ Len(attempts[t]) <= 1
            /\ loadedBy[t] # "none" => attempts[t] = <<loadedBy[t]>>

----------------------------------------------------------------------------
(* C14.  Unless its caller asked for a quantization, every conversion to   *)
(* the TensorFlow.js graph format keeps the weights at full precision.     *)
C14_QuantizationIsOptIn ==
    ~QuantizationRequested => quantize \in {"unset", "off"}

----------------------------------------------------------------------------
(* Cancellation.                                                           *)

\* Some file of directory d was left half written by the running process.
HalfWritten(d) ==
    \/ New("part") \in {d.onnx, d.saved_model, d.tfjs_json, d.model_json}
    \/ \E k \in Shards : New("part") \in {d.tfjs_bin[k], d.bin[k]}

\* The running process staged something into d, but not a complete output.
PartlyStaged(d) ==
    /\ d.model_json.by = "new" \/ \E k \in Shards : d.bin[k].by = "new"
    /\ ~CompleteOutput(d)

(* C15.  When a converter was cancelled, the directory of the stem that    *)
(* was being processed holds no half-written file of this run and no       *)
(* partly staged output.                                                   *)
C15_CancelLeavesNothingPartial ==
    (script \in Converters /\ Cancelled) =>
        \A t \in Targets :
            state[t] \notin Terminal =>
                ~HalfWritten(fs[t]) /\ ~PartlyStaged(fs[t])

----------------------------------------------------------------------------
(* Scheduling.                                                             *)

\* The position of a requested stem in the order the script takes them.
Pos(t) == CHOOSE i \in 1..Len(Requested) : Requested[i] = t

\* This step worked on stem t: it changed its state or a file of its
\* directory.
StepOf(t) == state'[t] # state[t] \/ fs'[t] # fs[t]

(* C16.  Stems are processed one at a time, in order: a step of a run that *)
(* works on a stem changes nothing of any other stem, and it is taken only *)
(* when every stem before it is Converted or Failed and no stem after it   *)
(* has been started.                                                       *)
C16_Step ==
    \A t \in RequestedSet :
        (StepOf(t) /\ run' = run) =>
            \A u \in RequestedSet \ {t} :
                /\ ~StepOf(u)
                /\ Pos(u) < Pos(t) => state[u] \in Terminal
                /\ Pos(u) > Pos(t) => state[u] = "Pending"

====
